---------------------------- MODULE Spec2Model ----------------------------
(***************************************************************************)
(* Model of multi_agent_comm_server.py: the request-file protocol of the   *)
(* multi-agent communication server.  Agents coordinate through JSON       *)
(* request documents kept in <project_root>/agent_docs/multi_agent.  Each  *)
(* agent runs its own server process, so the handlers of different         *)
(* processes interleave at the granularity of their file system calls.    *)
(*                                                                         *)
(* Representation.                                                         *)
(*   A file name is a sequence of characters.                              *)
(*   A directory entry is a record [kind, doc]: kind says what opening and *)
(*   parsing the entry yields, doc is the parsed object when kind="dict".  *)
(*   A parsed JSON object is a function from the keys it holds to values:  *)
(*   a key that is absent from the object is absent from the DOMAIN.       *)
(*   response_timestamp values are whole seconds (the ISO-8601 strings of  *)
(*   one fixed format and zone order as the instants they denote).         *)
(***************************************************************************)
EXTENDS Integers, Sequences, FiniteSets, TLC

(***************************************************************************)
(* Bounds of the model.                                                    *)
(***************************************************************************)
NumProcs == 2
MaxClock == 3
TicksPerSecond == 2

Procs == 1..NumProcs

(***************************************************************************)
(* JSON values.                                                            *)
(***************************************************************************)
EmptyDict == [k \in {} |-> 0]

Has(d, k) == k \in DOMAIN d

\* dict.get(k) compared with a string: a missing key yields None, which
\* equals no string.
GetEq(d, k, v) == Has(d, k) /\ d[k] = v

\* d[k] = v on a dict: the key is added or overwritten, all others kept.
SetKey(d, k, v) == [x \in (DOMAIN d) \cup {k} |-> IF x = k THEN v ELSE d[x]]

\* A question entry that is a JSON object, and one that is not.
QEntry(fields) == [isDict |-> TRUE, fields |-> fields]
QJunk == [isDict |-> FALSE, fields |-> EmptyDict]

\* A questions value that is a JSON list, and one that is not.
QList(items) == [isList |-> TRUE, items |-> items]
QNotList == [isList |-> FALSE, items |-> <<>>]

(***************************************************************************)
(* Directory entries.                                                      *)
(*   absent      no such entry                                             *)
(*   dir         the entry is a directory                                  *)
(*   unreadable  a file that open() refuses (OSError)                      *)
(*   malformed   a file that is not valid JSON / not valid UTF-8           *)
(*   falsy       valid JSON, not an object, false in Python: null, 0, "",  *)
(*               [], false                                                 *)
(*   list, string, number   valid JSON, not an object, true in Python      *)
(*   dict        a JSON object (doc), possibly the empty object            *)
(*   artifact    a file of free text that is not JSON                      *)
(***************************************************************************)
Entry(kind) == [kind |-> kind, doc |-> EmptyDict]
DictEntry(d) == [kind |-> "dict", doc |-> d]
Absent == Entry("absent")

\* Path.is_file()
is_file(e) == e.kind \notin {"absent", "dir"}

\* What json.load(open(...)) raises, if anything.
LoadRaises(e) == e.kind \in {"absent", "dir", "unreadable", "malformed", "artifact"}

\* Python truth value of the parsed data ("if data" / "if not data").
Truthy(e) ==
    \/ e.kind \in {"list", "string", "number"}
    \/ e.kind = "dict" /\ DOMAIN e.doc # {}


(***************************************************************************)
(* File names of the communication directory.                              *)
(***************************************************************************)
T1 == <<"t", "1", ".", "j", "s", "o", "n">>
T2 == <<"t", "2", ".", "j", "s", "o", "n">>
Notes == <<"t", "1", "_", "r", ".", "m", "d">>
Names == {T1, T2, Notes}

JsonSuffix == <<".", "j", "s", "o", "n">>

\* comm_dir.glob('*.json'): the entries whose name ends in ".json".
GlobJson(n) ==
    /\ Len(n) >= Len(JsonSuffix)
    /\ SubSeq(n, Len(n) - Len(JsonSuffix) + 1, Len(n)) = JsonSuffix

(***************************************************************************)
(* Storage accessor.                                                       *)
(***************************************************************************)
\* read_json_file: the parsed data, or None (here: Absent) on any failure.
read_json_file(e) == IF LoadRaises(e) THEN Absent ELSE e

\* "if not data" after read_json_file: None and every false JSON value,
\* the empty object included.
NotData(e) == LoadRaises(e) \/ ~Truthy(e)

\* get_current_timestamp: the clock (in ticks) cut to whole seconds.
get_current_timestamp(clk) == clk \div TicksPerSecond

(***************************************************************************)
(* Tool inputs.                                                            *)
(***************************************************************************)
Statuses == {"answered", "partial", "error"}
ErrorMessages == {"", "boom"}
QuestionIds == {"q1", "q2", "zz"}
AnswerObjects == {"ans1"}

NoOp == [name |-> "none", path |-> <<>>, new_status |-> "", has_error_message |-> FALSE,
         error_message |-> "", question_id |-> "", answer |-> "",
         task_id |-> <<>>, filename_suffix |-> <<>>, content |-> ""]

UpdateStatusInput(path, s, has, msg) ==
    [NoOp EXCEPT !.name = "update_request_status", !.path = path, !.new_status = s,
                 !.has_error_message = has, !.error_message = msg]

AddAnswerInput(path, qid, ans) ==
    [NoOp EXCEPT !.name = "add_answer_to_request", !.path = path, !.question_id = qid,
                 !.answer = ans]

ScanInput == [NoOp EXCEPT !.name = "check_for_new_requests"]

UpdateInputs(paths) ==
    {UpdateStatusInput(path, s, FALSE, "") : path \in paths, s \in Statuses}
    \cup {UpdateStatusInput(path, s, TRUE, m) : path \in paths, s \in Statuses, m \in ErrorMessages}

AnswerInputs(paths) ==
    {AddAnswerInput(path, q, a) : path \in paths, q \in QuestionIds, a \in AnswerObjects}

(***************************************************************************)
(* update_request_status, lines 178-181: the changes made to the parsed    *)
(* document before it is written back.                                     *)
(***************************************************************************)
\* Variant: a message is stored whatever the new status.
SetsErrorDetails_AnyStatus(in) == in.has_error_message /\ in.error_message # ""

\* "input.new_status == 'error' and input.error_message": None and the empty
\* string are both false.
SetsErrorDetails(in) ==
    in.new_status = "error" /\ in.has_error_message /\ in.error_message # ""

\* Variant: the status is set but the document is not stamped.
ApplyStatus_NoStamp(d, in, ts) ==
    LET d1 == SetKey(d, "status", in.new_status)
    IN  IF SetsErrorDetails(in) THEN SetKey(d1, "error_details", in.error_message) ELSE d1

ApplyStatus(d, in, ts) ==
    LET d1 == SetKey(d, "status", in.new_status)
        d2 == SetKey(d1, "response_timestamp", ts)
    IN  IF SetsErrorDetails(in) THEN SetKey(d2, "error_details", in.error_message) ELSE d2

(***************************************************************************)
(* add_answer_to_request, lines 199-209.                                   *)
(***************************************************************************)
QuestionMatches(q, qid) == q.isDict /\ GetEq(q.fields, "question_id", qid)

\* Variant: the loop without its break answers every matching entry.
RECURSIVE AnswerFirst_NoBreak(_, _, _)
AnswerFirst_NoBreak(items, qid, ans) ==
    IF items = <<>> THEN <<>>
    ELSE IF QuestionMatches(Head(items), qid)
         THEN <<QEntry(SetKey(Head(items).fields, "answer", ans))>> \o AnswerFirst_NoBreak(Tail(items), qid, ans)
         ELSE <<Head(items)>> \o AnswerFirst_NoBreak(Tail(items), qid, ans)

\* The for loop: the first matching entry gets the answer, then break.
RECURSIVE AnswerFirst(_, _, _)
AnswerFirst(items, qid, ans) ==
    IF items = <<>> THEN <<>>
    ELSE IF QuestionMatches(Head(items), qid)
         THEN <<QEntry(SetKey(Head(items).fields, "answer", ans))>> \o Tail(items)
         ELSE <<Head(items)>> \o AnswerFirst(Tail(items), qid, ans)

\* The flag "updated" after the loop.
Updated(d, qid) ==
    /\ Has(d, "questions")
    /\ d["questions"].isList
    /\ \E i \in 1..Len(d["questions"].items) : QuestionMatches(d["questions"].items[i], qid)

\* Variant: answering also resets the request to pending.
ApplyAnswer_Reopens(d, in, ts) ==
    LET qs == QList(AnswerFirst(d["questions"].items, in.question_id, in.answer))
    IN  SetKey(SetKey(SetKey(d, "questions", qs), "response_timestamp", ts), "status", "pending")

\* Variant: answering also marks the request answered.
ApplyAnswer_MarksAnswered(d, in, ts) ==
    LET qs == QList(AnswerFirst(d["questions"].items, in.question_id, in.answer))
    IN  SetKey(SetKey(SetKey(d, "questions", qs), "response_timestamp", ts), "status", "answered")

ApplyAnswer(d, in, ts) ==
    LET qs == QList(AnswerFirst(d["questions"].items, in.question_id, in.answer))
    IN  SetKey(SetKey(d, "questions", qs), "response_timestamp", ts)


(***************************************************************************)
(* Request documents the directory may hold before the engine runs.        *)
(***************************************************************************)
Q1 == QEntry([question_id |-> "q1", text |-> "Why?"])
Q2 == QEntry([question_id |-> "q2", text |-> "How?"])
Q1Answered == QEntry([question_id |-> "q1", text |-> "Again?", answer |-> "ans0"])

\* The document of the scenario: pending, two questions.
DocPlain ==
    [task_id |-> "t1", status |-> "pending", questions |-> QList(<<Q1, Q2>>),
     desired_output |-> "text"]

\* A non-object entry, a repeated question id, a key unknown to the schema.
DocDup ==
    [task_id |-> "t1", status |-> "pending",
     questions |-> QList(<<QJunk, Q1, Q1Answered>>), x_extra |-> "keep"]

\* No questions key; questions that is not a list.
DocNoQuestions == [task_id |-> "t1", status |-> "pending"]
DocBadQuestions == [status |-> "pending", questions |-> QNotList]

\* A document an earlier engine run left in status error.
DocOld ==
    [task_id |-> "t1", status |-> "error", questions |-> QList(<<Q1Answered, Q2>>),
     response_timestamp |-> 0, error_details |-> "old"]

\* No status key.
DocNoStatus == [task_id |-> "t2"]

\* A second pending request.
DocOther == [task_id |-> "t2", status |-> "pending", questions |-> QList(<<Q2>>)]

PendingDocs == {DocPlain, DocDup, DocNoQuestions, DocBadQuestions}
RequestDocs == PendingDocs \cup {DocOld, DocNoStatus, EmptyDict}

NonDocKinds ==
    {"absent", "dir", "unreadable", "malformed", "falsy", "list", "string", "number"}

(***************************************************************************)
(* State.                                                                  *)
(*   files      the entries of the communication directory, by name        *)
(*   commDir    "present", "missing", or "blocked" (a path component is a  *)
(*              non-directory or may not be created)                       *)
(*   clock      the wall clock, in ticks                                   *)
(*   pc, op     each server process's position and the tool call it runs   *)
(*   rd, data   the document as read, and as changed in memory             *)
(*   result     what the tool call returned or raised                      *)
(*   items, cur, found   the scan's remaining entries, current entry and   *)
(*              pending_requests list                                      *)
(* History variables, read by the properties only:                         *)
(*   t0         the timestamp when the call began                          *)
(*   seen       the processes that wrote the file since this one read it   *)
(*   lastWriter the process whose write is the stored document             *)
(*   updatedOK  the paths on which an update_request_status succeeded      *)
(*   created    the names of the documents created with status pending     *)
(*   snap       the directory as it was when the scan enumerated it        *)
(***************************************************************************)
VARIABLES files, commDir, clock, pc, op, rd, data, result, items, cur, found,
          t0, seen, lastWriter, updatedOK, created, snap

vars == <<files, commDir, clock, pc, op, rd, data, result, items, cur, found,
          t0, seen, lastWriter, updatedOK, created, snap>>

procVars == <<pc, op, rd, data, result, items, cur, found, t0, seen, snap>>

\* A call's outcome: the error raised, or the value returned (a list of
\* paths, or a JSON object in 'value').
NoResult == [kind |-> "none", paths |-> {}, value |-> EmptyDict]
Raised(kind) == [kind |-> kind, paths |-> {}, value |-> EmptyDict]
Returned(paths) == [kind |-> "ok", paths |-> paths, value |-> EmptyDict]
ReturnedValue(v) == [kind |-> "ok", paths |-> {}, value |-> v]

IsPending(e) == e.kind = "dict" /\ GetEq(e.doc, "status", "pending")

InitProcs ==
    /\ pc = [p \in Procs |-> "idle"]
    /\ op = [p \in Procs |-> NoOp]
    /\ rd = [p \in Procs |-> Absent]
    /\ data = [p \in Procs |-> Absent]
    /\ result = [p \in Procs |-> NoResult]
    /\ items = [p \in Procs |-> {}]
    /\ cur = [p \in Procs |-> <<>>]
    /\ found = [p \in Procs |-> {}]
    /\ t0 = [p \in Procs |-> 0]
    /\ seen = [p \in Procs |-> {}]
    /\ snap = [p \in Procs |-> [n \in Names |-> Absent]]
    /\ lastWriter = 0
    /\ updatedOK = {}
    /\ clock = 0

InitCreated == created = {n \in Names : GlobJson(n) /\ IsPending(files[n])}

\* Several server processes, each handling one call on the same request
\* document.
Init ==
    /\ files \in [Names -> {Absent} \cup {DictEntry(d) : d \in RequestDocs}]
    /\ files[T1].kind = "dict" /\ files[T1].doc \in {DocPlain, DocDup, DocOld}
    /\ files[T2] = Absent
    /\ files[Notes] = Absent
    /\ commDir = "present"
    /\ InitProcs
    /\ InitCreated

(***************************************************************************)
(* The clock advances on its own.                                          *)
(***************************************************************************)
Tick ==
    /\ clock < MaxClock
    /\ clock' = clock + 1
    /\ UNCHANGED <<files, commDir, procVars, lastWriter, updatedOK, created>>

(***************************************************************************)
(* update_request_status and add_answer_to_request, step by step.          *)
(***************************************************************************)
Finish(p, r) ==
    /\ pc' = [pc EXCEPT ![p] = "done"]
    /\ result' = [result EXCEPT ![p] = r]

\* Lines 172-174 and 193-195: the call arrives; is_file() decides whether
\* it goes on to read.
Begin(p, in) ==
    /\ pc[p] = "idle"
    /\ op' = [op EXCEPT ![p] = in]
    /\ t0' = [t0 EXCEPT ![p] = get_current_timestamp(clock)]
    /\ IF is_file(files[in.path])
       THEN /\ pc' = [pc EXCEPT ![p] = "read"]
            /\ UNCHANGED result
       ELSE Finish(p, Raised("NotFoundError"))
    /\ UNCHANGED <<files, commDir, clock, rd, data, items, cur, found, seen,
                   lastWriter, updatedOK, created, snap>>

\* Lines 175-177 and 196-198: read_json_file, then "if not data".
Read(p) ==
    /\ pc[p] = "read"
    /\ rd' = [rd EXCEPT ![p] = read_json_file(files[op[p].path])]
    /\ data' = [data EXCEPT ![p] = read_json_file(files[op[p].path])]
    /\ seen' = [seen EXCEPT ![p] = {}]
    /\ IF NotData(files[op[p].path])
       THEN Finish(p, Raised("ReadError"))
       ELSE /\ pc' = [pc EXCEPT ![p] = "modify"]
            /\ UNCHANGED result
    /\ UNCHANGED <<files, commDir, clock, op, items, cur, found, t0,
                   lastWriter, updatedOK, created, snap>>

\* Lines 178-182: a parsed value that is not an object takes no item
\* assignment (TypeError, which the host reports as a failed call).
ModifyStatus(p) ==
    /\ pc[p] = "modify"
    /\ op[p].name = "update_request_status"
    /\ IF data[p].kind = "dict"
       THEN /\ data' = [data EXCEPT ![p] =
                          DictEntry(ApplyStatus(data[p].doc, op[p], get_current_timestamp(clock)))]
            /\ pc' = [pc EXCEPT ![p] = "write"]
            /\ UNCHANGED result
       ELSE /\ Finish(p, Raised("Unhandled"))
            /\ UNCHANGED data
    /\ UNCHANGED <<files, commDir, clock, op, rd, items, cur, found, t0, seen,
                   lastWriter, updatedOK, created, snap>>

\* Lines 199-209.  '"questions" in data' on a list or a string that does not
\* hold it is False (not found); on a number, or followed by data["questions"]
\* on a list or string that holds it, it is a TypeError.
ModifyAnswer(p) ==
    /\ pc[p] = "modify"
    /\ op[p].name = "add_answer_to_request"
    /\ CASE data[p].kind = "dict" /\ Updated(data[p].doc, op[p].question_id) ->
              /\ data' = [data EXCEPT ![p] =
                            DictEntry(ApplyAnswer(data[p].doc, op[p], get_current_timestamp(clock)))]
              /\ pc' = [pc EXCEPT ![p] = "write"]
              /\ UNCHANGED result
         [] data[p].kind = "dict" /\ ~Updated(data[p].doc, op[p].question_id) ->
              /\ Finish(p, Raised("QuestionNotFound"))
              /\ UNCHANGED data
         [] data[p].kind = "number" ->
              /\ Finish(p, Raised("Unhandled"))
              /\ UNCHANGED data
         [] OTHER ->
              /\ \E k \in {"QuestionNotFound", "Unhandled"} : Finish(p, Raised(k))
              /\ UNCHANGED data
    /\ UNCHANGED <<files, commDir, clock, op, rd, items, cur, found, t0, seen,
                   lastWriter, updatedOK, created, snap>>

\* write_json_file, lines 60-71 (with lines 183-185, 210-212): the whole
\* document replaces the file's content; when open() fails the file is as
\* it was and the call raises.
WriteFile(fs, path, e) == [fs EXCEPT ![path] = e]

Write(p) ==
    /\ pc[p] = "write"
    /\ \E opened \in BOOLEAN :
         IF opened
         THEN /\ files' = WriteFile(files, op[p].path, data[p])
              /\ Finish(p, Returned({}))
              /\ lastWriter' = p
              /\ seen' = [q \in Procs |->
                            IF q # p /\ pc[q] \in {"modify", "write"} /\ op[q].path = op[p].path
                            THEN seen[q] \cup {p} ELSE seen[q]]
              /\ updatedOK' = IF op[p].name = "update_request_status"
                              THEN updatedOK \cup {op[p].path} ELSE updatedOK
         ELSE /\ Finish(p, Raised("WriteError"))
              /\ UNCHANGED <<files, lastWriter, seen, updatedOK>>
    /\ UNCHANGED <<commDir, clock, op, rd, data, items, cur, found, t0, created, snap>>

\* The call has returned; the process takes the next one.
Return(p) ==
    /\ pc[p] = "done"
    /\ pc' = [pc EXCEPT ![p] = "idle"]
    /\ op' = [op EXCEPT ![p] = NoOp]
    /\ rd' = [rd EXCEPT ![p] = Absent]
    /\ data' = [data EXCEPT ![p] = Absent]
    /\ result' = [result EXCEPT ![p] = NoResult]
    /\ items' = [items EXCEPT ![p] = {}]
    /\ cur' = [cur EXCEPT ![p] = <<>>]
    /\ found' = [found EXCEPT ![p] = {}]
    /\ t0' = [t0 EXCEPT ![p] = 0]
    /\ seen' = [seen EXCEPT ![p] = {}]
    /\ snap' = [snap EXCEPT ![p] = [n \in Names |-> Absent]]
    /\ UNCHANGED <<files, commDir, clock, lastWriter, updatedOK, created>>

BeginUpdate(p) == \E in \in UpdateInputs({T1}) : Begin(p, in)
BeginAnswer(p) == \E in \in AnswerInputs({T1}) : Begin(p, in)

\* The calls that race: every new status, with and without a message.
RaceUpdateInputs ==
    {UpdateStatusInput(T1, s, FALSE, "") : s \in Statuses}
    \cup {UpdateStatusInput(T1, "error", TRUE, "boom")}

BeginRaceUpdate(p) == \E in \in RaceUpdateInputs : Begin(p, in)

\* The racing calls fall within one tick of the clock.
Next ==
    \/ \E p \in Procs : BeginRaceUpdate(p)
    \/ \E p \in Procs : BeginAnswer(p)
    \/ \E p \in Procs : Read(p)
    \/ \E p \in Procs : ModifyStatus(p)
    \/ \E p \in Procs : ModifyAnswer(p)
    \/ \E p \in Procs : Write(p)

Spec == Init /\ [][Next]_vars


(***************************************************************************)
(* check_for_new_requests, step by step.                                   *)
(***************************************************************************)
ScanBegin(p) ==
    /\ pc[p] = "idle"
    /\ op' = [op EXCEPT ![p] = ScanInput]
    /\ t0' = [t0 EXCEPT ![p] = get_current_timestamp(clock)]
    /\ pc' = [pc EXCEPT ![p] = "mkdir"]
    /\ UNCHANGED <<files, commDir, clock, rd, data, result, items, cur, found, seen,
                   lastWriter, updatedOK, created, snap>>

\* Variant: a non-directory in the way is replaced by the directory.
get_comm_dir_Replaces(d) == "present"

\* get_comm_dir, lines 29-40: mkdir(parents=True, exist_ok=True).
get_comm_dir(d) == IF d = "blocked" THEN "blocked" ELSE "present"

ScanMkdir(p) ==
    /\ pc[p] = "mkdir"
    /\ commDir' = get_comm_dir(commDir)
    /\ IF get_comm_dir(commDir) = "blocked"
       THEN Finish(p, Raised("StorageError"))
       ELSE /\ pc' = [pc EXCEPT ![p] = "glob"]
            /\ UNCHANGED result
    /\ UNCHANGED <<files, clock, op, rd, data, items, cur, found, t0, seen,
                   lastWriter, updatedOK, created, snap>>

\* Line 114: the directory is listed once and filtered by '*.json'.
Glob(fs) == {n \in DOMAIN fs : fs[n].kind # "absent" /\ GlobJson(n)}

ScanGlob(p) ==
    /\ pc[p] = "glob"
    /\ items' = [items EXCEPT ![p] = Glob(files)]
    /\ snap' = [snap EXCEPT ![p] = files]
    /\ pc' = [pc EXCEPT ![p] = "iter"]
    /\ UNCHANGED <<files, commDir, clock, op, rd, data, result, cur, found, t0, seen,
                   lastWriter, updatedOK, created>>

\* Line 115: the next entry, in directory order (any order); is_file().
ScanItem(p) ==
    /\ pc[p] = "iter"
    /\ \E n \in items[p] :
         /\ items' = [items EXCEPT ![p] = items[p] \ {n}]
         /\ IF is_file(files[n])
            THEN /\ cur' = [cur EXCEPT ![p] = n]
                 /\ pc' = [pc EXCEPT ![p] = "open"]
            ELSE UNCHANGED <<cur, pc>>
    /\ UNCHANGED <<files, commDir, clock, op, rd, data, result, found, t0, seen,
                   lastWriter, updatedOK, created, snap>>

\* Lines 116-123: open, json.load, 'data and data.get("status") == "pending"'.
\*   skip    the inner except clause, or a false value, or another status
\*   append  a pending document
\*   abort   a true value without .get (AttributeError): the outer except
\*           clause turns it into a failed scan
ScanVerdict(e) ==
    CASE LoadRaises(e) -> "skip"
      [] ~Truthy(e) -> "skip"
      [] e.kind # "dict" -> "abort"
      [] GetEq(e.doc, "status", "pending") -> "append"
      [] OTHER -> "skip"

ScanOpen(p) ==
    /\ pc[p] = "open"
    /\ LET v == ScanVerdict(files[cur[p]]) IN
         /\ found' = [found EXCEPT ![p] = IF v = "append" THEN found[p] \cup {cur[p]} ELSE found[p]]
         /\ IF v = "abort"
            THEN Finish(p, Raised("ScanError"))
            ELSE /\ pc' = [pc EXCEPT ![p] = "iter"]
                 /\ UNCHANGED result
    /\ cur' = [cur EXCEPT ![p] = <<>>]
    /\ UNCHANGED <<files, commDir, clock, op, rd, data, items, t0, seen,
                   lastWriter, updatedOK, created, snap>>

\* Lines 124-125.
ScanReturn(p) ==
    /\ pc[p] = "iter"
    /\ items[p] = {}
    /\ Finish(p, Returned(found[p]))
    /\ UNCHANGED <<files, commDir, clock, op, rd, data, items, cur, found, t0, seen,
                   lastWriter, updatedOK, created, snap>>

(***************************************************************************)
(* One server process handling calls one after another, with no other      *)
(* writer: the scan, update_request_status and add_answer_to_request on    *)
(* the request t1.json, beside a second entry t2.json.                     *)
(***************************************************************************)
SeqProc == CHOOSE p \in Procs : \A q \in Procs : p <= q

SeqNeighbours == {Absent, DictEntry(DocOther), Entry("list")}

SeqInit ==
    /\ files \in [Names -> {Entry(k) : k \in NonDocKinds} \cup {DictEntry(d) : d \in RequestDocs}
                             \cup SeqNeighbours \cup {Entry("artifact")}]
    /\ files[T1] \in {DictEntry(d) : d \in RequestDocs} \cup {Entry(k) : k \in {"absent", "malformed", "list", "number"}}
    /\ files[T2] \in SeqNeighbours
    /\ files[Notes] = Entry("artifact")
    /\ commDir = "present"
    /\ InitProcs
    /\ InitCreated

SeqNext ==
    \/ Tick
    \/ BeginUpdate(SeqProc)
    \/ BeginAnswer(SeqProc)
    \/ Read(SeqProc)
    \/ ModifyStatus(SeqProc)
    \/ ModifyAnswer(SeqProc)
    \/ Write(SeqProc)
    \/ ScanBegin(SeqProc)
    \/ ScanMkdir(SeqProc)
    \/ ScanGlob(SeqProc)
    \/ ScanItem(SeqProc)
    \/ ScanOpen(SeqProc)
    \/ ScanReturn(SeqProc)
    \/ Return(SeqProc)

SpecSeq == SeqInit /\ [][SeqNext]_vars

(***************************************************************************)
(* The scan over every content of the directory, while another party may   *)
(* remove entries.                                                         *)
(***************************************************************************)
ScanEntries ==
    {Entry(k) : k \in NonDocKinds}
    \cup {DictEntry(d) : d \in {DocPlain, DocOther, DocOld, DocNoStatus, EmptyDict}}

ScanInit ==
    /\ files \in [Names -> ScanEntries \cup {Entry("artifact")}]
    /\ files[Notes] \in {Entry("artifact"), DictEntry(DocPlain), Absent}
    /\ commDir \in {"present", "missing", "blocked"}
    /\ commDir # "present" => \A n \in Names : files[n] = Absent
    /\ InitProcs
    /\ InitCreated

\* Not an engine operation: the engine never deletes.
ExternalRemove ==
    /\ \E n \in Names :
         /\ files[n].kind # "absent"
         /\ files' = [files EXCEPT ![n] = Absent]
    /\ UNCHANGED <<commDir, clock, procVars, lastWriter, updatedOK, created>>

ScanNext ==
    \/ ExternalRemove
    \/ ScanBegin(SeqProc)
    \/ ScanMkdir(SeqProc)
    \/ ScanGlob(SeqProc)
    \/ ScanItem(SeqProc)
    \/ ScanOpen(SeqProc)
    \/ ScanReturn(SeqProc)

SpecScan == ScanInit /\ [][ScanNext]_vars


(***************************************************************************)
(* Properties.                                                             *)
(***************************************************************************)
IsTerminal(e) == e.kind = "dict" /\ Has(e.doc, "status") /\ e.doc["status"] \in Statuses

IsUpdate(p) == op[p].name = "update_request_status"
IsAnswer(p) == op[p].name = "add_answer_to_request"
DoneOk(p) == pc[p] = "done" /\ result[p].kind = "ok"

\* The step in which process p's write replaces the stored document.
WriteStep(p) == pc[p] = "write" /\ pc'[p] = "done" /\ result'[p].kind = "ok"

\* The first entry of a questions list that matches the question id.
FirstMatch(qs, qid) ==
    CHOOSE i \in 1..Len(qs) :
        /\ QuestionMatches(qs[i], qid)
        /\ \A j \in 1..(i - 1) : ~QuestionMatches(qs[j], qid)

\* Document e shows the change that call "in" makes.
ContainsChange(e, in) ==
    /\ e.kind = "dict"
    /\ IF in.name = "update_request_status"
       THEN GetEq(e.doc, "status", in.new_status)
       ELSE /\ Updated(e.doc, in.question_id)
            /\ GetEq(e.doc["questions"].items[FirstMatch(e.doc["questions"].items, in.question_id)].fields,
                     "answer", in.answer)

\* C1 as stated: once the stored status is answered, partial or error, no
\* step of the engine, under any interleaving, makes it pending again.
C1_NeverPendingAgain ==
    [][\A n \in Names : IsTerminal(files[n]) => ~IsPending(files'[n])]_vars

\* C1 amended: once the stored status is answered, partial or error, the
\* only engine write that makes it pending again is the rewrite of an
\* add-answer call that had read the document while it was still pending;
\* update-status never writes pending, and add-answer writes back the
\* status it read.
C1_PendingAgainOnlyByStaleAnswer ==
    [][\A n \in Names :
         (IsTerminal(files[n]) /\ IsPending(files'[n])) =>
            \E p \in Procs : WriteStep(p) /\ op[p].path = n /\ IsAnswer(p) /\ IsPending(rd[p])]_vars

\* An add-answer that read a terminal document has written it back, and the
\* stored status is still terminal.
C1_Witness ==
    \E p \in Procs :
        DoneOk(p) /\ IsAnswer(p) /\ IsTerminal(rd[p]) /\ IsTerminal(files[op[p].path])

\* The two calls change different parts of the document.
DisjointCalls(a, b) ==
    \/ a.name # b.name
    \/ a.name = "add_answer_to_request" /\ a.question_id # b.question_id

\* Process q read the file before p's write and wrote after it, both calls
\* succeeded, and q's write is the stored document.
LostUpdateRace(p, q) ==
    /\ p # q
    /\ DoneOk(p) /\ DoneOk(q)
    /\ op[p].path = op[q].path
    /\ DisjointCalls(op[p], op[q])
    /\ p \in seen[q]
    /\ lastWriter = q
    /\ ~ContainsChange(rd[q], op[p])

\* C2: lost update.  Whenever a second read-modify-write call reads the file
\* before the first one writes and writes after it, both succeed and the
\* stored document no longer holds the first writer's change.
C2_LostUpdate ==
    \A p, q \in Procs :
        LostUpdateRace(p, q) => ~ContainsChange(files[op[p].path], op[p])

\* The race is reachable: an update-status whose new status is lost to an
\* add-answer that read the pending document.
C2_Witness ==
    \E p, q \in Procs :
        /\ LostUpdateRace(p, q)
        /\ IsUpdate(p) /\ IsAnswer(q)
        /\ IsPending(files[op[p].path])
        /\ ContainsChange(files[op[q].path], op[q])


StatusOf(e) == e.doc["status"]

\* C3 as stated: once the stored status is answered, partial or error, no
\* engine operation changes it to a different one of the three.
C3_TerminalIsFinal ==
    [][\A n \in Names :
         (IsTerminal(files[n]) /\ IsTerminal(files'[n])) => StatusOf(files'[n]) = StatusOf(files[n])]_vars

\* C3 amended: for calls handled one after another, once the stored status
\* is answered, partial or error it stays one of the three; add-answer and
\* the scan never change it, and an update-status call on such a document is
\* still honoured: its write sets the status to the call's new status,
\* which may be a different one of the three.
C3_TerminalStaysTerminal ==
    [][\A n \in Names :
         IsTerminal(files[n]) =>
            /\ IsTerminal(files'[n])
            /\ StatusOf(files'[n]) # StatusOf(files[n]) =>
                  \E p \in Procs : /\ WriteStep(p) /\ op[p].path = n /\ IsUpdate(p)
                                   /\ StatusOf(files'[n]) = op[p].new_status]_vars

\* An update-status call has moved a terminal document to another terminal
\* status.
C3_Witness ==
    \E p \in Procs :
        /\ DoneOk(p) /\ IsUpdate(p)
        /\ IsTerminal(rd[p]) /\ StatusOf(rd[p]) # op[p].new_status
        /\ IsTerminal(files[op[p].path]) /\ StatusOf(files[op[p].path]) = op[p].new_status

\* C4: add-answer with a question id that matches no entry of the
\* document's questions (questions absent or not a list included) fails
\* with the not-found error of the question id, writes nothing, and leaves
\* the stored document as it was.
C4_UnknownQuestionNotFound ==
    \A p \in Procs :
        (/\ pc[p] = "done" /\ IsAnswer(p)
         /\ files[op[p].path].kind = "dict"
         /\ ~Updated(files[op[p].path].doc, op[p].question_id))
        => /\ result[p].kind = "QuestionNotFound"
           /\ files[op[p].path] = rd[p]

\* The paths of the *.json files whose document has status pending.
PendingPaths(fs) == {n \in Names : GlobJson(n) /\ IsPending(fs[n])}

IsScan(p) == op[p].name = "check_for_new_requests"

\* C5: over a directory that exists and does not change during the scan,
\* scan-for-pending returns exactly the paths of the *.json files whose
\* document has status pending.
C5_ScanExact ==
    \A p \in Procs :
        (pc[p] = "done" /\ IsScan(p) /\ result[p].kind # "StorageError" /\ snap[p] = files)
        => result[p] = Returned(PendingPaths(files))

\* C6: provided the directory can be created, the scan never fails because
\* of a single entry, whatever it holds, and still returns the pending files
\* among the remaining entries.
C6_ScanNeverFails ==
    \A p \in Procs :
        (pc[p] = "done" /\ IsScan(p) /\ result[p].kind # "StorageError")
        => /\ result[p].kind = "ok"
           /\ PendingPaths(files) \subseteq result[p].paths

\* C7: for calls handled one after another with no other writer, every scan
\* returns a document created pending exactly as long as no update-status
\* on it has succeeded (a successful add-answer does not remove it).
C7_Lifecycle ==
    \A p \in Procs :
        (pc[p] = "done" /\ IsScan(p))
        => /\ result[p].kind = "ok"
           /\ \A n \in created : n \in result[p].paths <=> n \notin updatedOK

\* The document the claim expects after update-status: status and
\* response_timestamp set, error_details set when the new status is error
\* and a message was supplied (any string), everything else as in d.
ExpectedStatus(d, in, ts) ==
    [k \in (DOMAIN d) \cup {"status", "response_timestamp"}
           \cup (IF in.new_status = "error" /\ in.has_error_message THEN {"error_details"} ELSE {}) |->
        CASE k = "status" -> in.new_status
          [] k = "response_timestamp" -> ts
          [] k = "error_details" /\ in.new_status = "error" /\ in.has_error_message -> in.error_message
          [] OTHER -> d[k]]

\* The timestamps the clock showed between the call's begin and now.
StampsSince(p) == t0[p]..get_current_timestamp(clock)

\* C8: postcondition of a successful update-status run alone on document d.
C8_UpdatePost ==
    \A p \in Procs :
        (DoneOk(p) /\ IsUpdate(p))
        => \E ts \in StampsSince(p) :
              files[op[p].path] = DictEntry(ExpectedStatus(rd[p].doc, op[p], ts))

\* The document the claim expects after add-answer: the first matching
\* entry holds the answer, response_timestamp is set, everything else is as
\* in d.
ExpectedAnswer(d, in, ts) ==
    LET qs == d["questions"].items
        first == FirstMatch(qs, in.question_id)
        answered == [i \in 1..Len(qs) |->
                       IF i = first
                       THEN [qs[i] EXCEPT !.fields =
                               [k \in (DOMAIN qs[i].fields) \cup {"answer"} |->
                                  IF k = "answer" THEN in.answer ELSE qs[i].fields[k]]]
                       ELSE qs[i]]
    IN  [k \in (DOMAIN d) \cup {"response_timestamp"} |->
           CASE k = "response_timestamp" -> ts
             [] k = "questions" -> [d["questions"] EXCEPT !.items = answered]
             [] OTHER -> d[k]]

\* C9: postcondition of a successful add-answer run alone on document d.
C9_AnswerPost ==
    \A p \in Procs :
        (DoneOk(p) /\ IsAnswer(p))
        => \E ts \in StampsSince(p) :
              files[op[p].path] = DictEntry(ExpectedAnswer(rd[p].doc, op[p], ts))

\* A successful add-answer on the document with a non-object entry and a
\* repeated question id; and one that replaced an earlier answer.
C9_Witness ==
    \E p \in Procs :
        /\ DoneOk(p) /\ IsAnswer(p) /\ op[p].question_id = "q1"
        /\ rd[p].doc["questions"].items = <<QJunk, Q1, Q1Answered>>
        /\ files[op[p].path].doc["questions"].items[3] = Q1Answered

StampOf(e) == e.doc["response_timestamp"]
HasStamp(e) == e.kind = "dict" /\ Has(e.doc, "response_timestamp")
IsRmw(p) == IsUpdate(p) \/ IsAnswer(p)

\* C10 as stated: every successful update-status or add-answer leaves a
\* response_timestamp strictly newer than the one the document had.
C10_StrictlyNewer ==
    \A p \in Procs :
        (DoneOk(p) /\ IsRmw(p) /\ HasStamp(rd[p]))
        => StampOf(files[op[p].path]) > StampOf(rd[p])

\* C10 amended: every successful update-status or add-answer overwrites
\* response_timestamp with the clock value, in whole seconds, at the time
\* of the call; that value is not older than the one the document had, and
\* equal to it when both calls fall within the same second.
C10_StampedNotOlder ==
    \A p \in Procs :
        (DoneOk(p) /\ IsRmw(p))
        => /\ HasStamp(files[op[p].path])
           /\ StampOf(files[op[p].path]) \in StampsSince(p)
           /\ HasStamp(rd[p]) => StampOf(files[op[p].path]) >= StampOf(rd[p])

\* A successful call has replaced an earlier stamp by a newer one.
C10_Witness ==
    \E p \in Procs :
        /\ DoneOk(p) /\ IsRmw(p) /\ HasStamp(rd[p])
        /\ StampOf(files[op[p].path]) > StampOf(rd[p])



(***************************************************************************)
(* get_request_summary and get_request_details.  Both begin like the       *)
(* writers (is_file, read_json_file, "if not data"), so Begin and Read     *)
(* carry them to the point where the parsed value is used.                 *)
(***************************************************************************)
SummaryInput(path) == [NoOp EXCEPT !.name = "get_request_summary", !.path = path]
DetailsInput(path) == [NoOp EXCEPT !.name = "get_request_details", !.path = path]

BeginSummary(p) == \E path \in Names : Begin(p, SummaryInput(path))
BeginDetails(p) == \E path \in Names : Begin(p, DetailsInput(path))

\* q.get(k) placed in the result: the value, or None for a missing key.
Opt(d, k) == IF Has(d, k) THEN [isNone |-> FALSE, v |-> d[k]]
                          ELSE [isNone |-> TRUE, v |-> ""]

\* Lines 142-145: one {question_id, text} per entry that is a dict.
RECURSIVE QuestionSummaries(_)
QuestionSummaries(qs) ==
    IF qs = <<>> THEN <<>>
    ELSE (IF Head(qs).isDict
          THEN <<[question_id |-> Opt(Head(qs).fields, "question_id"),
                  text |-> Opt(Head(qs).fields, "text")]>>
          ELSE <<>>) \o QuestionSummaries(Tail(qs))

\* data.get("questions", []): the stored value, or an empty list when the
\* key is missing.
QuestionsOrDefault(d) == IF Has(d, "questions") THEN d["questions"].items ELSE <<>>

\* Lines 140-148: summary, then the filter "v is not None".  The list
\* built for "questions" is never None.
summary_filtered(d) ==
    [k \in {x \in {"task_id", "desired_output"} : Has(d, x)} \cup {"questions"} |->
        IF k = "questions" THEN QuestionSummaries(QuestionsOrDefault(d)) ELSE d[k]]

\* Lines 140-150.  A parsed value that is not an object has no .get
\* (AttributeError).  A "questions" value that is not a list is iterated
\* as it is: a string or an object yields no dict entries, a number or
\* null is not iterable (TypeError).
SummaryReturn(p) ==
    /\ pc[p] = "modify"
    /\ op[p].name = "get_request_summary"
    /\ \/ /\ data[p].kind = "dict"
          /\ Finish(p, ReturnedValue(summary_filtered(data[p].doc)))
       \/ /\ \/ data[p].kind # "dict"
             \/ /\ Has(data[p].doc, "questions")
                /\ ~data[p].doc["questions"].isList
          /\ Finish(p, Raised("Unhandled"))
    /\ UNCHANGED <<files, commDir, clock, op, rd, data, items, cur, found, t0, seen,
                   lastWriter, updatedOK, created, snap>>

\* Lines 164-165: the log line calls data.get, then data is returned.
DetailsReturn(p) ==
    /\ pc[p] = "modify"
    /\ op[p].name = "get_request_details"
    /\ IF data[p].kind = "dict"
       THEN Finish(p, ReturnedValue(data[p].doc))
       ELSE Finish(p, Raised("Unhandled"))
    /\ UNCHANGED <<files, commDir, clock, op, rd, data, items, cur, found, t0, seen,
                   lastWriter, updatedOK, created, snap>>

(***************************************************************************)
(* One server process serving all five request operations in sequence,     *)
(* over a directory that may not exist yet.                                *)
(***************************************************************************)
\* A request without task_id whose second question has no text.
DocSparse ==
    [status |-> "pending",
     questions |-> QList(<<QJunk, QEntry([question_id |-> "q1"]), Q2>>)]

ReadDocs == RequestDocs \cup {DocSparse}

ReadInit ==
    /\ \/ /\ files \in [Names -> {Entry(k) : k \in NonDocKinds} \cup {DictEntry(d) : d \in ReadDocs}
                                   \cup {Absent, Entry("artifact")}]
          /\ files[T1] \in {DictEntry(d) : d \in ReadDocs} \cup {Entry(k) : k \in NonDocKinds} \cup {Absent}
          /\ files[T2] \in {Absent, DictEntry(DocOther)}
          /\ files[Notes] = Entry("artifact")
          /\ commDir = "present"
       \/ /\ files = [n \in Names |-> Absent]
          /\ commDir \in {"missing", "blocked"}
    /\ InitProcs
    /\ InitCreated

ReadNext ==
    \/ BeginUpdate(SeqProc)
    \/ BeginAnswer(SeqProc)
    \/ BeginSummary(SeqProc)
    \/ BeginDetails(SeqProc)
    \/ Read(SeqProc)
    \/ ModifyStatus(SeqProc)
    \/ ModifyAnswer(SeqProc)
    \/ SummaryReturn(SeqProc)
    \/ DetailsReturn(SeqProc)
    \/ Write(SeqProc)
    \/ ScanBegin(SeqProc)
    \/ ScanMkdir(SeqProc)
    \/ ScanGlob(SeqProc)
    \/ ScanItem(SeqProc)
    \/ ScanOpen(SeqProc)
    \/ ScanReturn(SeqProc)
    \/ Return(SeqProc)

SpecRead == ReadInit /\ [][ReadNext]_vars

IsSummary(p) == op[p].name = "get_request_summary"
IsDetails(p) == op[p].name = "get_request_details"
SummaryKeys == {"task_id", "questions", "desired_output"}

\* The document a finished read call was given.
Source(p) == files[op[p].path]

\* C11 as stated: summarize is a sparse projection.  Each of task_id,
\* questions and desired_output is in the result exactly when it is in the
\* source document, and when questions is a list the result lists
\* {question_id, text} for exactly its object entries, in order.
\* The code violates it: a document without "questions" is summarised
\* with "questions": [].
C11_SparseProjection ==
    \A p \in Procs :
        (DoneOk(p) /\ IsSummary(p)) =>
            /\ \A k \in SummaryKeys : Has(result[p].value, k) <=> Has(Source(p).doc, k)
            /\ (Has(Source(p).doc, "questions") /\ Source(p).doc["questions"].isList) =>
                   result[p].value["questions"] = QuestionSummaries(Source(p).doc["questions"].items)

\* C12 as stated: fetch-full fails with not-found exactly when the file is
\* absent, with a read error exactly when the file exists but cannot be
\* opened or parsed, and returns an equal document for every file that
\* parses as a JSON object, the empty object included.
\* The code violates it: {} is answered with the read error.
C12_FetchFull ==
    \A p \in Procs :
        (pc[p] = "done" /\ IsDetails(p)) =>
            /\ result[p].kind = "NotFoundError" <=> ~is_file(Source(p))
            /\ result[p].kind = "ReadError" <=> (is_file(Source(p)) /\ LoadRaises(Source(p)))
            /\ Source(p).kind = "dict" => result[p] = ReturnedValue(Source(p).doc)

(***************************************************************************)
(* create_associated_file: the filename sanitizer.  Strings are sequences  *)
(* of one-character strings.                                               *)
(***************************************************************************)
MaxLen == 2
MaxTaskLen == 1

Letters == {"a", "d", "e", "f", "i", "j", "l", "m", "n", "o", "r", "s", "t"}
Digits == {"1", "2"}

\* str.isalnum on one character.
isalnum(c) == c \in Letters \cup Digits

\* One character of each class the sanitizer tells apart, '!' standing for
\* every other character.
Alphabet == {"a", "1", "-", "_", ".", "/", "\\", "!"}

Strings(n) == UNION {[1..k -> Alphabet] : k \in 0..n}

\* Line 221: every character outside [alnum - _] becomes '_'.
safe_task_id(s) ==
    [i \in 1..Len(s) |-> IF isalnum(s[i]) \/ s[i] \in {"-", "_"} THEN s[i] ELSE "_"]

\* Line 222: the same for the suffix, '.' allowed as well.
ReplaceSuffix(s) ==
    [i \in 1..Len(s) |-> IF isalnum(s[i]) \/ s[i] \in {"-", "_", "."} THEN s[i] ELSE "_"]

lstrip_Keeps(s, chars) == s

\* str.lstrip(chars): leading characters of the set are removed.
RECURSIVE lstrip(_, _)
lstrip(s, chars) ==
    IF s # <<>> /\ Head(s) \in chars THEN lstrip(Tail(s), chars) ELSE s

DefaultSuffix == <<"_", "f", "i", "l", "e">>

\* Lines 222-225.
safe_suffix(s) ==
    LET stripped == lstrip(ReplaceSuffix(s), {".", "/", "\\"})
    IN  IF stripped = <<>> THEN DefaultSuffix ELSE stripped

\* Line 226.
filename(task, suffix) == safe_task_id(task) \o safe_suffix(suffix)

(***************************************************************************)
(* get_comm_dir step by step.  Path.mkdir(parents=True, exist_ok=True) on  *)
(* <root>/agent_docs/multi_agent calls os.mkdir on the leaf; when the      *)
(* parent is missing it creates the parent and calls os.mkdir on the leaf  *)
(* again.  commDir is "missing" (no agent_docs), "parent" (agent_docs      *)
(* only), "present", or "blocked" (a component is not a directory).        *)
(***************************************************************************)
OnExists_Raises(d) == "raise"

\* os.mkdir found the entry existing: with exist_ok the error is dropped
\* when the entry is a directory.
OnExists(d) == IF d = "blocked" THEN "raise" ELSE "pass"

\* Lines 111 and 220: what follows get_comm_dir in the caller.
AfterMkdir(p) == IF op[p].name = "check_for_new_requests" THEN "glob" ELSE "create"

\* os.mkdir(leaf).
MkdirLeaf(p) ==
    /\ pc[p] = "mkdir"
    /\ CASE commDir = "missing" ->
              /\ pc' = [pc EXCEPT ![p] = "mkdir_parent"]
              /\ UNCHANGED <<commDir, result>>
         [] commDir = "parent" ->
              /\ commDir' = "present"
              /\ pc' = [pc EXCEPT ![p] = AfterMkdir(p)]
              /\ UNCHANGED result
         [] OTHER ->
              /\ IF OnExists(commDir) = "pass"
                 THEN /\ pc' = [pc EXCEPT ![p] = AfterMkdir(p)]
                      /\ UNCHANGED result
                 ELSE Finish(p, Raised("StorageError"))
              /\ UNCHANGED commDir
    /\ UNCHANGED <<files, clock, op, rd, data, items, cur, found, t0, seen,
                   lastWriter, updatedOK, created, snap>>

\* self.parent.mkdir(parents=True, exist_ok=True): os.mkdir(agent_docs).
MkdirParent(p) ==
    /\ pc[p] = "mkdir_parent"
    /\ IF commDir = "missing"
       THEN /\ commDir' = "parent"
            /\ pc' = [pc EXCEPT ![p] = "mkdir_retry"]
            /\ UNCHANGED result
       ELSE /\ IF OnExists(commDir) = "pass"
               THEN /\ pc' = [pc EXCEPT ![p] = "mkdir_retry"]
                    /\ UNCHANGED result
               ELSE Finish(p, Raised("StorageError"))
            /\ UNCHANGED commDir
    /\ UNCHANGED <<files, clock, op, rd, data, items, cur, found, t0, seen,
                   lastWriter, updatedOK, created, snap>>

\* self.mkdir(mode, parents=False, exist_ok=exist_ok): os.mkdir(leaf) again.
MkdirRetry(p) ==
    /\ pc[p] = "mkdir_retry"
    /\ IF commDir = "parent"
       THEN /\ commDir' = "present"
            /\ pc' = [pc EXCEPT ![p] = AfterMkdir(p)]
            /\ UNCHANGED result
       ELSE /\ IF OnExists(commDir) = "pass"
               THEN /\ pc' = [pc EXCEPT ![p] = AfterMkdir(p)]
                    /\ UNCHANGED result
               ELSE Finish(p, Raised("StorageError"))
            /\ UNCHANGED commDir
    /\ UNCHANGED <<files, clock, op, rd, data, items, cur, found, t0, seen,
                   lastWriter, updatedOK, created, snap>>

(***************************************************************************)
(* create_associated_file.                                                 *)
(***************************************************************************)
CreateFileInput(task, suffix, content) ==
    [NoOp EXCEPT !.name = "create_associated_file", !.task_id = task,
                 !.filename_suffix = suffix, !.content = content]

\* Content that is plain text, and content that is the text of a pending
\* request document.
TextContents == {"c1", "c2"}
JsonContent == "json"
DocArtifact == [task_id |-> "t9", status |-> "pending", questions |-> QList(<<Q1>>)]

\* What a later open-and-parse of the written text yields.
ContentEntry(c) ==
    IF c = JsonContent THEN DictEntry(DocArtifact)
    ELSE [kind |-> "artifact", doc |-> [text |-> c]]

BeginCreate(p, in) ==
    /\ pc[p] = "idle"
    /\ op' = [op EXCEPT ![p] = in]
    /\ t0' = [t0 EXCEPT ![p] = get_current_timestamp(clock)]
    /\ pc' = [pc EXCEPT ![p] = "mkdir"]
    /\ UNCHANGED <<files, commDir, clock, rd, data, result, items, cur, found, seen,
                   lastWriter, updatedOK, created, snap>>

\* Variant: the file is opened for appending, so an existing file keeps
\* its old text in front of the new.
CreateEntry_Appends(fs, fn, e) ==
    [n \in (DOMAIN fs) \cup {fn} |->
        IF n # fn THEN fs[n]
        ELSE IF fn \in DOMAIN fs /\ fs[fn].kind # "absent"
             THEN [kind |-> "artifact", doc |-> [text |-> "appended"]]
             ELSE e]

\* open(filepath, 'w') and f.write(content): the entry named filename is
\* created or its content replaced.
CreateEntry(fs, fn, e) == [n \in (DOMAIN fs) \cup {fn} |-> IF n = fn THEN e ELSE fs[n]]

\* Lines 221-240.  open() raises OSError on a directory, or when the
\* storage refuses; the file is then as it was.
CreateWrite(p) ==
    /\ pc[p] = "create"
    /\ LET fn == filename(op[p].task_id, op[p].filename_suffix)
       IN  \E opened \in BOOLEAN :
             IF opened /\ ~(fn \in DOMAIN files /\ files[fn].kind = "dir")
             THEN /\ files' = CreateEntry(files, fn, ContentEntry(op[p].content))
                  /\ Finish(p, Returned({fn}))
             ELSE /\ Finish(p, Raised("CreateError"))
                  /\ UNCHANGED files
    /\ UNCHANGED <<commDir, clock, op, rd, data, items, cur, found, t0, seen,
                   lastWriter, updatedOK, created, snap>>

IsCreate(p) == op[p].name = "create_associated_file"

(***************************************************************************)
(* One create_associated_file call, for every task id and suffix over the  *)
(* alphabet, on a directory that exists fully, in part or not at all.      *)
(***************************************************************************)
NameInit ==
    /\ commDir \in {"present", "parent", "missing"}
    /\ files = [n \in Names |-> IF commDir = "present" /\ n = T1
                                THEN DictEntry(DocPlain) ELSE Absent]
    /\ InitProcs
    /\ InitCreated

BeginCreateAny(p) ==
    /\ pc[p] = "idle"
    /\ \E task \in Strings(MaxTaskLen), suffix \in Strings(MaxLen) :
         BeginCreate(p, CreateFileInput(task, suffix, "c1"))

NameNext ==
    \/ BeginCreateAny(SeqProc)
    \/ MkdirLeaf(SeqProc)
    \/ MkdirParent(SeqProc)
    \/ MkdirRetry(SeqProc)
    \/ CreateWrite(SeqProc)

SpecName == NameInit /\ [][NameNext]_vars

HasSeparator(s) == \E i \in 1..Len(s) : s[i] \in {"/", "\\"}

\* The name computed for the call process p is handling.
FilenameOf(p) == filename(op[p].task_id, op[p].filename_suffix)

\* C13: for every task id and suffix the computed filename is non-empty,
\* contains neither '/' nor '\', does not start with '.', and the file
\* written is the entry of that name in the communication directory.
C13_TraversalGuard ==
    \A p \in Procs :
        (IsCreate(p) /\ pc[p] \in {"create", "done"}) =>
            /\ FilenameOf(p) # <<>>
            /\ ~HasSeparator(FilenameOf(p))
            /\ Head(FilenameOf(p)) # "."
            /\ DoneOk(p) => /\ result[p].paths = {FilenameOf(p)}
                            /\ FilenameOf(p) \in DOMAIN files
                            /\ files[FilenameOf(p)] = ContentEntry(op[p].content)

\* A call with an empty task id and the suffix './' has written its file.
C13_Witness ==
    \E p \in Procs :
        /\ DoneOk(p) /\ IsCreate(p)
        /\ op[p].task_id = <<>>
        /\ op[p].filename_suffix = <<".", "/">>
        /\ FilenameOf(p) = <<"_">>

(***************************************************************************)
(* Several server processes resolving the communication directory at the   *)
(* same time, each on behalf of one scan or one create_associated_file.    *)
(***************************************************************************)
\* (task id, suffix) pairs: one naming a request document, two naming the
\* same notes file (the second through a suffix with a leading dot), one
\* made of path characters.
FilePairs ==
    { <<<<"t">>, <<"1", ".", "j", "s", "o", "n">>>>,
      <<<<"t", "1">>, <<"_", "r", ".", "m", "d">>>>,
      <<<<"t">>, <<".", "1", "_", "r", ".", "m", "d">>>>,
      <<<<"t", "/">>, <<".", ".">>>> }

DirCreateInputs ==
    { CreateFileInput(<<"t", "1">>, <<"_", "r", ".", "m", "d">>, "c1"),
      CreateFileInput(<<"t">>, <<"1", ".", "j", "s", "o", "n">>, JsonContent) }

BeginDirCreate(p) == \E in \in DirCreateInputs : BeginCreate(p, in)

DirInit ==
    /\ commDir \in {"present", "parent", "missing", "blocked"}
    /\ files = [n \in Names |-> IF commDir = "present" /\ n = T1
                                THEN DictEntry(DocPlain) ELSE Absent]
    /\ InitProcs
    /\ InitCreated

DirNext ==
    \/ \E p \in Procs : BeginDirCreate(p)
    \/ \E p \in Procs : ScanBegin(p)
    \/ \E p \in Procs : MkdirLeaf(p)
    \/ \E p \in Procs : MkdirParent(p)
    \/ \E p \in Procs : MkdirRetry(p)
    \/ \E p \in Procs : CreateWrite(p)
    \/ \E p \in Procs : ScanGlob(p)
    \/ \E p \in Procs : ScanItem(p)
    \/ \E p \in Procs : ScanOpen(p)
    \/ \E p \in Procs : ScanReturn(p)

SpecDir == DirInit /\ [][DirNext]_vars

\* Process p has got its directory from get_comm_dir.
Resolved(p) ==
    \/ pc[p] \in {"glob", "iter", "open", "create"}
    \/ pc[p] = "done" /\ result[p].kind # "StorageError"

\* C14: directory resolution is idempotent and race-safe.  With callers
\* creating the missing components step by step at the same time, a
\* caller fails only when a path component is not a directory, never
\* because another caller created a directory first, and every caller
\* that got its directory got the one existing communication directory.
C14_RaceSafeResolution ==
    \A p \in Procs :
        /\ result[p].kind = "StorageError" => commDir = "blocked"
        /\ Resolved(p) => commDir = "present"

\* Two callers found the directory missing; one has created it and
\* finished its call while the other is still about to create it.
C14_Witness ==
    \E p, q \in Procs :
        /\ p # q
        /\ DoneOk(p)
        /\ pc[q] \in {"mkdir_parent", "mkdir_retry"}
        /\ commDir = "present"

(***************************************************************************)
(* error_details over a document's life.                                   *)
(***************************************************************************)
HasErrorDetails(e) == e.kind = "dict" /\ Has(e.doc, "error_details")

\* C15 as stated: in every document state reached from a pending document
\* without error_details, error_details is present only when status
\* equals error.
C15_ErrorDetailsOnlyWithError ==
    \A n \in created :
        HasErrorDetails(files[n]) => GetEq(files[n].doc, "status", "error")

\* C15, amended: error_details is written only by the write of an
\* update-status call whose new status is error, together with that
\* status, and no operation removes or clears it afterwards.
C15_ErrorDetailsSetWithErrorAndKept ==
    [][\A n \in created :
          /\ (HasErrorDetails(files'[n]) /\ files'[n] # files[n]
                /\ ~(HasErrorDetails(files[n])
                       /\ files'[n].doc["error_details"] = files[n].doc["error_details"])) =>
                 /\ GetEq(files'[n].doc, "status", "error")
                 /\ \E p \in Procs : /\ WriteStep(p) /\ IsUpdate(p) /\ op[p].path = n
                                     /\ op[p].new_status = "error"
                                     /\ files'[n].doc["error_details"] = op[p].error_message
          /\ HasErrorDetails(files[n]) => HasErrorDetails(files'[n])]_vars

\* A document that was pending now has status answered or partial and
\* still carries the error_details of an earlier update to error.
C15_Witness ==
    \E n \in created :
        /\ HasErrorDetails(files[n])
        /\ files[n].doc["error_details"] = "boom"
        /\ files[n].doc["status"] \in {"answered", "partial"}

(***************************************************************************)
(* One server process serving all six operations in sequence, files being  *)
(* created beside the pending request t1.json.                             *)
(***************************************************************************)
FileCreateInputs ==
    {CreateFileInput(pair[1], pair[2], c) : pair \in FilePairs, c \in TextContents \cup {JsonContent}}

BeginFileCreate(p) == \E in \in FileCreateInputs : BeginCreate(p, in)

\* The request operations, addressed to any entry of the directory.
BeginFileUpdate(p) ==
    \E path \in DOMAIN files : Begin(p, UpdateStatusInput(path, "answered", FALSE, ""))
BeginFileAnswer(p) ==
    \E path \in DOMAIN files : Begin(p, AddAnswerInput(path, "q1", "ans1"))
BeginFileSummary(p) == \E path \in DOMAIN files : Begin(p, SummaryInput(path))
BeginFileDetails(p) == \E path \in DOMAIN files : Begin(p, DetailsInput(path))

FileInit ==
    /\ files = [n \in Names |-> IF n = T1 THEN DictEntry(DocPlain) ELSE Absent]
    /\ commDir = "present"
    /\ InitProcs
    /\ InitCreated

FileNext ==
    \/ BeginFileCreate(SeqProc)
    \/ BeginFileUpdate(SeqProc)
    \/ BeginFileAnswer(SeqProc)
    \/ BeginFileSummary(SeqProc)
    \/ BeginFileDetails(SeqProc)
    \/ ScanBegin(SeqProc)
    \/ MkdirLeaf(SeqProc)
    \/ CreateWrite(SeqProc)
    \/ Read(SeqProc)
    \/ ModifyStatus(SeqProc)
    \/ ModifyAnswer(SeqProc)
    \/ SummaryReturn(SeqProc)
    \/ DetailsReturn(SeqProc)
    \/ Write(SeqProc)
    \/ ScanGlob(SeqProc)
    \/ ScanItem(SeqProc)
    \/ ScanOpen(SeqProc)
    \/ ScanReturn(SeqProc)
    \/ Return(SeqProc)

SpecFile == FileInit /\ [][FileNext]_vars

\* The step in which process p's create_associated_file writes its file.
CreateStep(p) == pc[p] = "create" /\ pc'[p] = "done" /\ result'[p].kind = "ok"

\* An entry holding exactly what some create_associated_file call wrote.
IsAssociated(e) == \E c \in TextContents \cup {JsonContent} : e = ContentEntry(c)

\* C16 as stated: for every task id and suffix, create-associated-file
\* never creates or overwrites an entry named *.json, so it changes no
\* request document and produces nothing a scan would parse as a request.
\* The code violates it: task id "t" and suffix "1.json" name t1.json.
C16_NeverWritesJsonEntry ==
    \A p \in Procs :
        (DoneOk(p) /\ IsCreate(p)) => ~GlobJson(FilenameOf(p))

\* C17 as stated: associated files are write-once; after the create no
\* later operation changes the file's content or removes it.
C17_WriteOnce ==
    [][\A n \in DOMAIN files :
          IsAssociated(files[n]) => (n \in DOMAIN files' /\ files'[n] = files[n])]_vars

\* C17, amended: no operation removes an associated file, and its content
\* changes only by a later create-associated-file whose sanitized filename
\* is the same (the new content replaces it), or by an update-status or
\* add-answer addressed to it when its content parses as a JSON object.
C17_ChangedOnlyByRewrite ==
    [][\A n \in DOMAIN files :
          IsAssociated(files[n]) =>
              /\ n \in DOMAIN files'
              /\ files'[n].kind # "absent"
              /\ files'[n] # files[n] =>
                    \/ \E p \in Procs : /\ CreateStep(p)
                                        /\ FilenameOf(p) = n
                                        /\ files'[n] = ContentEntry(op[p].content)
                    \/ \E p \in Procs : /\ WriteStep(p) /\ IsRmw(p)
                                        /\ op[p].path = n
                                        /\ files[n].kind = "dict"]_vars

\* The notes file was created with the text of a request, updated by
\* update-status, and is now overwritten by a create call with another
\* (task id, suffix) pair and other content.
C17_Witness ==
    \E p \in Procs :
        /\ DoneOk(p) /\ IsCreate(p)
        /\ op[p].task_id = <<"t">>
        /\ op[p].content = "c2"
        /\ FilenameOf(p) = Notes
        /\ Notes \in updatedOK
        /\ files[Notes] = ContentEntry("c2")

(***************************************************************************)
(* write_json_file at the level of the file system: open(filepath, 'w')    *)
(* empties the file, json.dump then writes the document.  Readers in       *)
(* other server processes run between the two.                             *)
(***************************************************************************)
\* Line 65: the file is truncated; when open() fails it is as it was.
WriteOpen(p) ==
    /\ pc[p] = "write"
    /\ \E opened \in BOOLEAN :
         IF opened
         THEN /\ files' = WriteFile(files, op[p].path, Entry("malformed"))
              /\ pc' = [pc EXCEPT ![p] = "dump"]
              /\ UNCHANGED result
         ELSE /\ Finish(p, Raised("WriteError"))
              /\ UNCHANGED files
    /\ UNCHANGED <<commDir, clock, op, rd, data, items, cur, found, t0, seen,
                   lastWriter, updatedOK, created, snap>>

\* Lines 66-67: json.dump writes the whole document.
WriteDump(p) ==
    /\ pc[p] = "dump"
    /\ files' = WriteFile(files, op[p].path, data[p])
    /\ Finish(p, Returned({}))
    /\ lastWriter' = p
    /\ seen' = [q \in Procs |->
                  IF q # p /\ pc[q] \in {"modify", "write", "dump"} /\ op[q].path = op[p].path
                  THEN seen[q] \cup {p} ELSE seen[q]]
    /\ updatedOK' = IF op[p].name = "update_request_status"
                    THEN updatedOK \cup {op[p].path} ELSE updatedOK
    /\ UNCHANGED <<commDir, clock, op, rd, data, items, cur, found, t0, created, snap>>

\* A pending request, answered by some processes while others read.
TornInit ==
    /\ files \in [Names -> {Absent} \cup {DictEntry(d) : d \in PendingDocs \cup {DocOther}}]
    /\ files[T1] \in {DictEntry(DocPlain), DictEntry(DocDup)}
    /\ files[T2] \in {Absent, DictEntry(DocOther)}
    /\ files[Notes] = Absent
    /\ commDir = "present"
    /\ InitProcs
    /\ InitCreated

TornNext ==
    \/ \E p \in Procs : BeginAnswer(p)
    \/ \E p \in Procs : BeginDetails(p)
    \/ \E p \in Procs : ScanBegin(p)
    \/ \E p \in Procs : Read(p)
    \/ \E p \in Procs : ModifyAnswer(p)
    \/ \E p \in Procs : DetailsReturn(p)
    \/ \E p \in Procs : WriteOpen(p)
    \/ \E p \in Procs : WriteDump(p)
    \/ \E p \in Procs : ScanMkdir(p)
    \/ \E p \in Procs : ScanGlob(p)
    \/ \E p \in Procs : ScanItem(p)
    \/ \E p \in Procs : ScanOpen(p)
    \/ \E p \in Procs : ScanReturn(p)

SpecTorn == TornInit /\ [][TornNext]_vars

\* C18 as stated: no pending request is lost to a concurrent reader.  A
\* pending document on which no update-status was started is returned by
\* every scan-for-pending and read successfully by fetch-full, also while
\* an add-answer is rewriting the file.
\* The code violates it: between open(..., 'w') and json.dump the file is
\* empty, which a scan skips and fetch-full reports as a read error.
C18_NoPendingLost ==
    \A p \in Procs :
        pc[p] = "done" =>
            \A n \in created :
                /\ IsScan(p) => (result[p].kind = "ok" /\ n \in result[p].paths)
                /\ (IsDetails(p) /\ op[p].path = n) => result[p].kind = "ok"

(***************************************************************************)
(* What the read operations leave behind.                                  *)
(***************************************************************************)
ReadOps == {"check_for_new_requests", "get_request_summary", "get_request_details"}

\* A step of a read operation handled by process p.
ReadStep(p) ==
    /\ pc'[p] # pc[p]
    /\ (IF pc[p] = "idle" THEN op'[p].name ELSE op[p].name) \in ReadOps

\* C19: scan-for-pending, summarize and fetch-full never change the
\* content of any request document or associated file, whether they
\* succeed or fail; their only effect on the file system is the scan
\* creating the communication directory when it is missing.
C19_ReadsChangeNothing ==
    [][\A p \in Procs :
          ReadStep(p) =>
              /\ files' = files
              /\ commDir' # commDir =>
                    /\ op[p].name = "check_for_new_requests"
                    /\ commDir = "missing"
                    /\ commDir' = "present"]_vars

\* A scan has returned after creating the missing directory.
C19_Witness ==
    \E p \in Procs :
        /\ DoneOk(p) /\ IsScan(p)
        /\ commDir = "present"
        /\ \A n \in Names : files[n] = Absent

=============================================================================
